---- MODULE Spec2Model ----
(***************************************************************************)
(* Model of the browser client (src/frontend/src/api/client.ts): the       *)
(* guideline list and the rules kept in localStorage, rule status changes, *)
(* the evaluation call and the waiver calls of `regulatory`; the projects, *)
(* documents, extracted records and generation runs kept in localStorage;  *)
(* and the two pieces of React state that sit on top of them, the          *)
(* ProjectProvider and the upload queue of the documents page.             *)
(*                                                                         *)
(* Most client functions are `await delay(); <body>`: the body has no      *)
(* further await, so it runs to completion on the single JavaScript thread *)
(* and is one atomic action here.  Where another call can fall between the *)
(* call and its body (upload, extraction, generation, reload, selectById,  *)
(* uploadFiles) the function is one action per stretch between awaits.     *)
(* Calls may be issued with any argument, so the inputs of each action     *)
(* range over small sets.                                                  *)
(*                                                                         *)
(* Specifications: Spec (guideline, evaluation and waiver calls over one   *)
(* guideline), SpecProjects (project creation and evaluation), SpecLibrary *)
(* (guideline calls over two guidelines) and SpecDb (rows of the SQL       *)
(* tables projects, generation_runs and rule_evaluation_log with their     *)
(* ON DELETE CASCADE foreign keys), SpecDocuments (documents of two        *)
(* projects), SpecDelete (projects.delete against calls in flight),        *)
(* SpecPipeline (extraction, activation and generation for one project),   *)
(* SpecProvider (reload and selectById) and SpecQueue (uploadFiles).       *)
(***************************************************************************)
EXTENDS Integers, Sequences, FiniteSets, TLC

\* ------------------------------------------------------------------ bounds
\* number of regulatory.guidelines.allocate calls explored
MaxAllocations == 2
\* distinct instants new Date() can return to regulatory.evaluate
MaxTimestamp == 2
\* generation_runs rows and rule_evaluation_log rows ever inserted
MaxRuns == 2
MaxLogRows == 2
\* document ids and generation run ids generateId hands out
MaxDocs == 2
MaxRunIds == 2
\* client calls awaiting their delay or their fetch at one time
MaxInflight == 1

\* ------------------------------------------------------------ input sets
GuidelineIds == {"guide-1"}
\* guideline ids of the two-guideline library (specification SpecLibrary)
LibraryGuidelineIds == {"guide-1", "guide-2"}
ProjectIds == {"proj-1"}
\* project ids of the project data calls
DataProjectIds == {"proj-1", "proj-2"}
\* rule codes handed to the waiver calls: the rule the evaluation reports as
\* failing
WaiverCodes == {"Q1A-005"}
\* justification texts: empty, whitespace only, and a real one
JustificationTexts == {"", " ", "sponsor sign-off pending"}
\* an optional argument or field: <<>> is undefined, <<s>> is the string s
Undefined == <<>>
Some(s) == <<s>>
OptionalJustifications == {Undefined} \cup {Some(s) : s \in JustificationTexts}

AllocationStatus == {"pending_review", "confirmed", "rejected", "overridden"}
ClinicalPhase == {"phase_1", "phase_2", "phase_3", "post_approval"}
\* values of new Date().toISOString()
Timestamps == 1..MaxTimestamp
RuleSeverity == {"BLOCK", "WARN"}

\* JavaScript truthiness of an optional string: undefined and "" are falsy
Truthy(opt) == opt # Undefined /\ opt[1] # ""

VARIABLES
  guidelines,     \* localStorage ctd_guidelines: sequence of guideline records
  issuedGuides,   \* guideline ids generateId('guide') has handed out
  rules,          \* localStorage ctd_rules: guideline id -> sequence of rules
  allocs,         \* number of allocate calls done (feeds generateId)
  waiverAcks,     \* per project and rule code, what the waiver calls answered
  response,       \* value returned by the latest client call
  projects,       \* localStorage ctd_projects: sequence of project records
  db,             \* rows of the tables projects, generation_runs and
                  \* rule_evaluation_log of the SQL schema
  reEvaluated,    \* history: the latest call and the call before it were
                  \* both regulatory.evaluate of the same project
  storage,        \* localStorage ctd_documents, ctd_document_texts,
                  \* ctd_studies, ctd_lots, ctd_conditions, ctd_attributes,
                  \* ctd_generation_runs and ctd_generated_html
  issued,         \* ids generateId has handed out: project ids, and the
                  \* number of document ids and of run ids
  inflight,       \* client calls that are awaiting their delay or fetch
  activationAcks, \* per project, the clinical phases activate answered
                  \* 'activated' for
  provider,       \* React state of ProjectProvider and its pending calls
  uploader        \* React state of the Documents page upload queue and the
                  \* uploadFiles invocations in progress

\* the project data kept by the client, and the page state
dataVars == <<storage, issued, inflight, activationAcks>>
uiVars == <<provider, uploader>>
vars == <<guidelines, issuedGuides, rules, allocs, waiverAcks, response,
          projects, db, reEvaluated, dataVars, uiVars>>

\* ids produced by generateId('rule') in the k-th allocation (k = 1, 2, ...)
RuleId(k, i) == 3 * (k - 1) + i
\* positions, within one allocation, of the rules the status calls are aimed
\* at: a BLOCK rule and the WARN rule (the calls treat every rule alike)
TargetPositions == {1, 3}
\* rule ids passed to updateRuleStatus; they include ids that are not stored
\* yet and ids of rules a later allocation has replaced
RuleIds == {RuleId(k, i) : k \in 1..MaxAllocations, i \in TargetPositions}

\* SampleRules with extraction output landing as confirmed
SampleRules_Confirmed(k) ==
  << [id |-> RuleId(k, 1), rule_id_code |-> "Q1A-001", status |-> "confirmed",
      validation_severity |-> "BLOCK", override_justification |-> Undefined],
     [id |-> RuleId(k, 2), rule_id_code |-> "Q1A-002", status |-> "confirmed",
      validation_severity |-> "BLOCK", override_justification |-> Undefined],
     [id |-> RuleId(k, 3), rule_id_code |-> "Q1A-003", status |-> "confirmed",
      validation_severity |-> "WARN", override_justification |-> Undefined] >>

\* the three sample rules allocate stores, all pending_review
SampleRules(k) ==
  << [id |-> RuleId(k, 1), rule_id_code |-> "Q1A-001", status |-> "pending_review",
      validation_severity |-> "BLOCK", override_justification |-> Undefined],
     [id |-> RuleId(k, 2), rule_id_code |-> "Q1A-002", status |-> "pending_review",
      validation_severity |-> "BLOCK", override_justification |-> Undefined],
     [id |-> RuleId(k, 3), rule_id_code |-> "Q1A-003", status |-> "pending_review",
      validation_severity |-> "WARN", override_justification |-> Undefined] >>

\* EvaluationReport with a gate that also counts the WARN failure
EvaluationReport_WarnGates ==
  [ can_proceed |-> FALSE,
    blocking_failures |-> << >>,
    warnings |-> << [rule_id |-> "rule-001", rule_id_code |-> "Q1A-005",
                     result |-> "FAIL", severity |-> "WARN"] >>,
    passes |-> << [rule_id |-> "rule-002", rule_id_code |-> "Q1A-001",
                   result |-> "PASS", severity |-> "BLOCK"],
                  [rule_id |-> "rule-003", rule_id_code |-> "Q1A-002",
                   result |-> "PASS", severity |-> "BLOCK"] >>,
    waivers |-> << >> ]

\* EvaluationReport that keeps reporting the failing rule as waived
EvaluationReport_StaleWaiver ==
  [ can_proceed |-> TRUE,
    blocking_failures |-> << >>,
    warnings |-> << >>,
    passes |-> << [rule_id |-> "rule-002", rule_id_code |-> "Q1A-001",
                   result |-> "PASS", severity |-> "BLOCK"],
                  [rule_id |-> "rule-003", rule_id_code |-> "Q1A-002",
                   result |-> "PASS", severity |-> "BLOCK"] >>,
    waivers |-> << [rule_id |-> "rule-001", rule_id_code |-> "Q1A-005",
                    result |-> "WAIVED", severity |-> "WARN"] >> ]

\* EvaluationReport that also lists a built-in Phase II/III rule
EvaluationReport_PhaseTwoRule ==
  [ can_proceed |-> TRUE,
    blocking_failures |-> << >>,
    warnings |-> << [rule_id |-> "rule-001", rule_id_code |-> "Q1A-005",
                     result |-> "FAIL", severity |-> "WARN"] >>,
    passes |-> << [rule_id |-> "rule-002", rule_id_code |-> "Q1A-001",
                   result |-> "PASS", severity |-> "BLOCK"],
                  [rule_id |-> "rule-003", rule_id_code |-> "Q1A-002",
                   result |-> "PASS", severity |-> "BLOCK"],
                  [rule_id |-> "rule-004", rule_id_code |-> "PHASE-II-III-ACCEL",
                   result |-> "PASS", severity |-> "BLOCK"] >>,
    waivers |-> << >> ]

\* the report regulatory.evaluate returns
EvaluationReport ==
  [ can_proceed |-> TRUE,
    blocking_failures |-> << >>,
    warnings |-> << [rule_id |-> "rule-001", rule_id_code |-> "Q1A-005",
                     result |-> "FAIL", severity |-> "WARN"] >>,
    passes |-> << [rule_id |-> "rule-002", rule_id_code |-> "Q1A-001",
                   result |-> "PASS", severity |-> "BLOCK"],
                  [rule_id |-> "rule-003", rule_id_code |-> "Q1A-002",
                   result |-> "PASS", severity |-> "BLOCK"] >>,
    waivers |-> << >> ]

\* a response: the call, its first argument, whether it resolved (ok) or threw,
\* and the value it resolved to
NoResponse == [op |-> "none", arg |-> "", ok |-> TRUE, value |-> [none |-> TRUE]]

\* the three tables before any row is inserted; nextRun and nextLog stand
\* for gen_random_uuid(): every inserted row gets an id never used before
EmptyDb ==
  [ projects |-> {}, generation_runs |-> {}, rule_evaluation_log |-> {},
    nextRun |-> 1, nextLog |-> 1 ]

\* localStorage without any of the project data keys written yet; the keyed
\* stores are functions from the project ids (run ids) that have an entry
EmptyMap == [k \in {} |-> k]
EmptyStorage ==
  [ documents |-> EmptyMap, document_texts |-> {}, studies |-> EmptyMap,
    lots |-> EmptyMap, conditions |-> EmptyMap, attributes |-> EmptyMap,
    generation_runs |-> << >>, generated_html |-> EmptyMap ]

Init ==
  /\ guidelines = << >>
  /\ issuedGuides = {}
  /\ rules = [g \in LibraryGuidelineIds |-> << >>]
  /\ allocs = 0
  /\ waiverAcks = [p \in ProjectIds |-> [c \in WaiverCodes |-> "none"]]
  /\ response = NoResponse
  /\ projects = << >>
  /\ db = EmptyDb
  /\ reEvaluated = FALSE
  /\ storage = EmptyStorage
  /\ issued = [projects |-> {}, docs |-> 0, runs |-> 0]
  /\ inflight = {}
  /\ activationAcks = [p \in DataProjectIds |-> {}]
  /\ provider = [list |-> << >>, current |-> Undefined, calls |-> {}]
  /\ uploader = [uploadQueue |-> << >>, started |-> 0, invocations |-> {}]

\* ---------------------------------------------------------------- projects
\* create: put a new draft project, always phase_1, at the head of the list
ProjectsCreate(p) ==
  /\ p \notin issued.projects
  /\ issued' = [issued EXCEPT !.projects = @ \cup {p}]
  /\ projects' = <<[id |-> p, status |-> "draft", clinical_phase |-> "phase_1",
                    document_count |-> 0]>> \o projects
  /\ response' = [op |-> "projects.create", arg |-> p, ok |-> TRUE,
                  value |-> [id |-> p]]
  /\ reEvaluated' = FALSE
  /\ UNCHANGED <<db, guidelines, issuedGuides, rules, allocs, waiverAcks,
                 storage, inflight, activationAcks, uiVars>>

\* -------------------------------------------------- regulatory.guidelines
\* upload: push a new, inactive guideline with a fresh id
Upload(g) ==
  /\ g \notin issuedGuides
  /\ guidelines' = Append(guidelines,
                     [id |-> g, is_active |-> FALSE, allocation_pack_count |-> 0])
  /\ issuedGuides' = issuedGuides \cup {g}
  /\ response' = [op |-> "guidelines.upload", arg |-> g, ok |-> TRUE, value |-> [id |-> g]]
  /\ reEvaluated' = FALSE
  /\ UNCHANGED <<dataVars, uiVars, projects, db, rules, allocs, waiverAcks>>

\* delete: filter the guideline out of the list; its rules stay in ctd_rules
DeleteGuideline(g) ==
  /\ LET keep(x) == x.id # g
     IN guidelines' = SelectSeq(guidelines, keep)
  /\ response' = [op |-> "guidelines.delete", arg |-> g, ok |-> TRUE, value |-> [id |-> g]]
  /\ reEvaluated' = FALSE
  /\ UNCHANGED <<dataVars, uiVars, projects, db, issuedGuides, rules, allocs, waiverAcks>>

\* allocate: mark the guideline active with one pack when it is listed, and
\* replace whatever rules are stored for the id by three new sample rules
Allocate(g) ==
  /\ allocs < MaxAllocations
  /\ guidelines' = [i \in 1..Len(guidelines) |->
                      IF guidelines[i].id = g
                      THEN [guidelines[i] EXCEPT !.is_active = TRUE,
                                                 !.allocation_pack_count = 1]
                      ELSE guidelines[i]]
  /\ rules' = [rules EXCEPT ![g] = SampleRules(allocs + 1)]
  /\ allocs' = allocs + 1
  /\ response' = [op |-> "guidelines.allocate", arg |-> g, ok |-> TRUE,
                  value |-> [status |-> "completed"]]
  /\ reEvaluated' = FALSE
  /\ UNCHANGED <<dataVars, uiVars, projects, db, issuedGuides, waiverAcks>>

\* the rules of guideline g after updateRuleStatus(g, ruleId, status, justification)
updateRuleStatus(R, g, ruleId, status, justification) ==
  [R EXCEPT ![g] =
     [i \in 1..Len(R[g]) |->
        \* rules.find: the first rule with this id (ids are unique)
        IF R[g][i].id = ruleId /\ \A k \in 1..(i - 1) : R[g][k].id # ruleId
        THEN [R[g][i] EXCEPT
                !.status = status,
                !.override_justification =
                   IF Truthy(justification) THEN justification ELSE @]
        ELSE R[g][i]]]

UpdateRuleStatus(g, ruleId, status, justification) ==
  /\ rules' = updateRuleStatus(rules, g, ruleId, status, justification)
  /\ response' = [op |-> "guidelines.updateRuleStatus", arg |-> g, ok |-> TRUE,
                  value |-> [success |-> TRUE]]
  /\ reEvaluated' = FALSE
  /\ UNCHANGED <<dataVars, uiVars, projects, db, guidelines, issuedGuides, allocs, waiverAcks>>

\* ---------------------------------------------------- regulatory.evaluate
\* StampReport whose order of passes depends on the instant of the call
StampReport_TimeOrdered(report, t) ==
  [ timestamp |-> t,
    can_proceed |-> report.can_proceed,
    blocking_failures |-> report.blocking_failures,
    warnings |-> report.warnings,
    passes |-> IF t = 1 THEN report.passes
               ELSE [i \in 1..Len(report.passes) |->
                       report.passes[Len(report.passes) + 1 - i]],
    waivers |-> report.waivers ]

\* the returned object: the fixed report with timestamp: new Date()
StampReport(report, t) ==
  [ timestamp |-> t,
    can_proceed |-> report.can_proceed,
    blocking_failures |-> report.blocking_failures,
    warnings |-> report.warnings,
    passes |-> report.passes,
    waivers |-> report.waivers ]

Evaluate(p, t) ==
  /\ response' = [op |-> "evaluate", arg |-> p, ok |-> TRUE,
                  value |-> StampReport(EvaluationReport, t)]
  /\ reEvaluated' = (response.op = "evaluate" /\ response.arg = p)
  /\ UNCHANGED <<dataVars, uiVars, projects, db, guidelines, issuedGuides, rules, allocs, waiverAcks>>

\* ----------------------------------------------------- regulatory.waivers
\* add stores nothing and answers {rule_id_code, status: 'waived'}
WaiverAdd(p, ruleIdCode, justification) ==
  /\ response' = [op |-> "waivers.add", arg |-> p, ok |-> TRUE,
                  value |-> [rule_id_code |-> ruleIdCode, status |-> "waived"]]
  /\ waiverAcks' = [waiverAcks EXCEPT ![p][ruleIdCode] = "waived"]
  /\ reEvaluated' = FALSE
  /\ UNCHANGED <<dataVars, uiVars, projects, db, guidelines, issuedGuides, rules, allocs>>

\* remove stores nothing and answers nothing
WaiverRemove(p, ruleIdCode) ==
  /\ response' = [op |-> "waivers.remove", arg |-> p, ok |-> TRUE,
                  value |-> [none |-> TRUE]]
  /\ waiverAcks' = [waiverAcks EXCEPT ![p][ruleIdCode] =
                      IF @ = "none" THEN "none" ELSE "removed"]
  /\ reEvaluated' = FALSE
  /\ UNCHANGED <<dataVars, uiVars, projects, db, guidelines, issuedGuides, rules, allocs>>

\* list answers an empty list, whatever was added
WaiversList(p) ==
  /\ response' = [op |-> "waivers.list", arg |-> p, ok |-> TRUE,
                  value |-> [items |-> << >>]]
  /\ reEvaluated' = FALSE
  /\ UNCHANGED <<dataVars, uiVars, projects, db, guidelines, issuedGuides,
                 rules, allocs, waiverAcks>>

Next ==
  \/ \E g \in GuidelineIds : Upload(g)
  \/ \E g \in GuidelineIds : DeleteGuideline(g)
  \/ \E g \in GuidelineIds : Allocate(g)
  \/ \E g \in GuidelineIds, ruleId \in RuleIds, status \in AllocationStatus,
        justification \in OptionalJustifications :
        UpdateRuleStatus(g, ruleId, status, justification)
  \/ \E p \in ProjectIds, t \in Timestamps : Evaluate(p, t)
  \/ \E p \in ProjectIds, c \in WaiverCodes, j \in JustificationTexts :
        WaiverAdd(p, c, j)
  \/ \E p \in ProjectIds, c \in WaiverCodes : WaiverRemove(p, c)

Spec == Init /\ [][Next]_vars

\* ----------------------------------------------------------- project data
\* A keyed store (Record<string, T>) is a function on the keys it holds.
\* allX[key] || []
Get(store, key) == IF key \in DOMAIN store THEN store[key] ELSE << >>
\* allX[key] = value
Put(store, key, value) ==
  [k \in DOMAIN store \cup {key} |-> IF k = key THEN value ELSE store[k]]
\* delete allX[key]
Remove(store, key) == [k \in DOMAIN store \ {key} |-> store[k]]
\* array.filter
Filter(seq, Keep(_)) == SelectSeq(seq, Keep)
SeqToSet(seq) == {seq[i] : i \in 1..Len(seq)}

DocumentClassification ==
  {"stability_plan", "stability_report", "coa", "technical_report",
   "other_supporting"}
\* classifications passed to upload and reclassify: one authoritative kind
\* and one supporting kind; upload may also be called without one
ClassificationInputs == {"stability_report", "other_supporting"}
OptionalClassifications == {Undefined} \cup {Some(c) : c \in ClassificationInputs}
DocIds == 1..MaxDocs

\* documentCount with a count that ignores the document just stored
documentCount_Stale(docs) == IF Len(docs) = 0 THEN 0 ELSE Len(docs) - 1

\* project.document_count = allDocs[projectId].length
documentCount(docs) == Len(docs)

\* the project list with the count of project p set, when p is listed
WithDocumentCount(list, p, n) ==
  [i \in 1..Len(list) |->
     IF list[i].id = p /\ \A k \in 1..(i - 1) : list[k].id # p
     THEN [list[i] EXCEPT !.document_count = n]
     ELSE list[i]]

\* whether project p is in the stored project list
Listed(p) == \E i \in 1..Len(projects) : projects[i].id = p
ListedNext(p) == \E i \in 1..Len(projects') : projects'[i].id = p

\* A call in flight: the client function, the project it was called for
\* and its other argument
Call(op, p, arg) == [op |-> op, project |-> p, arg |-> arg]

\* documents.upload is called and awaits its delay
DocumentsUploadCall(p, classification) ==
  /\ Cardinality(inflight) < MaxInflight
  /\ Call("documents.upload", p, classification) \notin inflight
  /\ inflight' = inflight \cup {Call("documents.upload", p, classification)}
  /\ UNCHANGED <<guidelines, issuedGuides, rules, allocs, waiverAcks, db,
                 response, reEvaluated, projects, storage, issued,
                 activationAcks, uiVars>>

\* the body of documents.upload after its delay: store the document as
\* 'supporting' under its project, store its text, and set the count of the
\* project when it is listed
UploadBody(p, classification) ==
  /\ issued.docs < MaxDocs
  /\ LET docId == issued.docs + 1
         newDoc == [id |-> docId,
                    classification |-> IF Truthy(classification)
                                       THEN classification[1]
                                       ELSE "other_supporting",
                    authority |-> "supporting"]
         docs == Append(Get(storage.documents, p), newDoc)
     IN /\ storage' = [storage EXCEPT
                          !.documents = Put(@, p, docs),
                          !.document_texts = @ \cup {docId}]
        /\ projects' = WithDocumentCount(projects, p, documentCount(docs))
        /\ issued' = [issued EXCEPT !.docs = docId]
        /\ response' = [op |-> "documents.upload", arg |-> p, ok |-> TRUE,
                        value |-> [id |-> docId]]
  /\ reEvaluated' = FALSE

\* a documents.upload call in flight completes
DocumentsUpload(call) ==
  /\ call.op = "documents.upload"
  /\ inflight' = inflight \ {call}
  /\ UploadBody(call.project, call.arg)
  /\ UNCHANGED <<guidelines, issuedGuides, rules, allocs, waiverAcks, db,
                 activationAcks, uiVars>>

\* documents.reclassify: set the classification of the document, or throw
\* 'Document not found'
DocumentsReclassify(p, docId, classification) ==
  /\ IF \E d \in SeqToSet(Get(storage.documents, p)) : d.id = docId
     THEN /\ storage' = [storage EXCEPT !.documents[p] =
                           [i \in 1..Len(@) |->
                              IF @[i].id = docId
                              THEN [@[i] EXCEPT !.classification = classification]
                              ELSE @[i]]]
          /\ response' = [op |-> "documents.reclassify", arg |-> p, ok |-> TRUE,
                          value |-> [id |-> docId]]
     ELSE /\ storage' = storage
          /\ response' = [op |-> "documents.reclassify", arg |-> p, ok |-> FALSE,
                          value |-> [none |-> TRUE]]
  /\ reEvaluated' = FALSE
  /\ UNCHANGED <<guidelines, issuedGuides, rules, allocs, waiverAcks, db,
                 projects, issued, inflight, activationAcks, uiVars>>

\* documents.delete: when the project has a document list, filter the
\* document out, drop its text, and set the count of the project
DocumentsDelete(p, docId) ==
  /\ IF p \in DOMAIN storage.documents
     THEN LET keep(d) == d.id # docId
              docs == Filter(storage.documents[p], keep)
          IN /\ storage' = [storage EXCEPT
                               !.documents = Put(@, p, docs),
                               !.document_texts = @ \ {docId}]
             /\ projects' = WithDocumentCount(projects, p, documentCount(docs))
     ELSE UNCHANGED <<storage, projects>>
  /\ response' = [op |-> "documents.delete", arg |-> p, ok |-> TRUE,
                  value |-> [none |-> TRUE]]
  /\ reEvaluated' = FALSE
  /\ UNCHANGED <<guidelines, issuedGuides, rules, allocs, waiverAcks, db,
                 issued, inflight, activationAcks, uiVars>>

\* RunsAfterDelete that keeps the runs of the deleted project
RunsAfterDelete_KeepAll(runs, id) == runs

\* runs.filter((r) => r.project_id !== id)
RunsAfterDelete(runs, id) ==
  LET keep(r) == r.project_id # id IN Filter(runs, keep)

\* projects.delete: filter the project out of the list and delete what is
\* stored for it: documents and their texts, studies, lots, conditions,
\* attributes, generation runs and their generated HTML
ProjectsDelete(id) ==
  /\ LET keep(x) == x.id # id
         projectDocs == Get(storage.documents, id)
         runIds == {r.run_id : r \in {x \in SeqToSet(storage.generation_runs) :
                                         x.project_id = id}}
     IN /\ projects' = Filter(projects, keep)
        /\ storage' =
             [ documents |-> Remove(storage.documents, id),
               document_texts |->
                 storage.document_texts \ {d.id : d \in SeqToSet(projectDocs)},
               studies |-> Remove(storage.studies, id),
               lots |-> Remove(storage.lots, id),
               conditions |-> Remove(storage.conditions, id),
               attributes |-> Remove(storage.attributes, id),
               generation_runs |-> RunsAfterDelete(storage.generation_runs, id),
               generated_html |->
                 [r \in DOMAIN storage.generated_html \ runIds |->
                    storage.generated_html[r]] ]
  /\ response' = [op |-> "projects.delete", arg |-> id, ok |-> TRUE,
                  value |-> [none |-> TRUE]]
  /\ reEvaluated' = FALSE
  /\ UNCHANGED <<guidelines, issuedGuides, rules, allocs, waiverAcks, db,
                 issued, inflight, activationAcks, uiVars>>

\* ------------------------------------------------------------- extraction
\* n records as extraction stores them: every one 'confirmed'
ExtractedRecords(n) ==
  [i \in 1..n |-> [display_order |-> i, extraction_status |-> "confirmed"]]

\* extraction.start up to its fetch: throw when the project has no
\* documents, else post their texts to /api/extract
ExtractionStartCall(p) ==
  /\ IF Len(Get(storage.documents, p)) = 0
     THEN /\ response' = [op |-> "extraction.start", arg |-> p, ok |-> FALSE,
                          value |-> [none |-> TRUE]]
          /\ reEvaluated' = FALSE
          /\ UNCHANGED inflight
     ELSE /\ Cardinality(inflight) < MaxInflight
          /\ Call("extraction.start", p, Undefined) \notin inflight
          /\ inflight' = inflight \cup {Call("extraction.start", p, Undefined)}
          /\ UNCHANGED <<response, reEvaluated>>
  /\ UNCHANGED <<guidelines, issuedGuides, rules, allocs, waiverAcks, db,
                 projects, storage, issued, activationAcks, uiVars>>

\* extraction.start after its fetch: with an ok response holding n records
\* of each kind, store them for the project; otherwise fall back to
\* startMock, which awaits its delay
ExtractionStart(call, ok, n) ==
  /\ call.op = "extraction.start"
  /\ IF ok
     THEN /\ storage' = [storage EXCEPT
                           !.studies = Put(@, call.project, ExtractedRecords(n)),
                           !.conditions = Put(@, call.project, ExtractedRecords(n)),
                           !.attributes = Put(@, call.project, ExtractedRecords(n)),
                           !.lots = Put(@, call.project, ExtractedRecords(n))]
          /\ inflight' = inflight \ {call}
          /\ response' = [op |-> "extraction.start", arg |-> call.project,
                          ok |-> TRUE, value |-> [status |-> "completed"]]
          /\ reEvaluated' = FALSE
     ELSE /\ inflight' = (inflight \ {call})
                           \cup {[call EXCEPT !.op = "extraction.startMock"]}
          /\ UNCHANGED <<storage, response, reEvaluated>>
  /\ UNCHANGED <<guidelines, issuedGuides, rules, allocs, waiverAcks, db,
                 projects, issued, activationAcks, uiVars>>

\* extraction.startMock after its delay: store two studies, two conditions
\* and four attributes for the project; lots are left as they are
ExtractionStartMock(call) ==
  /\ call.op = "extraction.startMock"
  /\ storage' = [storage EXCEPT
                   !.studies = Put(@, call.project, ExtractedRecords(2)),
                   !.conditions = Put(@, call.project, ExtractedRecords(2)),
                   !.attributes = Put(@, call.project, ExtractedRecords(4))]
  /\ inflight' = inflight \ {call}
  /\ response' = [op |-> "extraction.start", arg |-> call.project,
                  ok |-> TRUE, value |-> [status |-> "completed"]]
  /\ reEvaluated' = FALSE
  /\ UNCHANGED <<guidelines, issuedGuides, rules, allocs, waiverAcks, db,
                 projects, issued, activationAcks, uiVars>>

\* ------------------------------------------------------------- generation
\* result.html || result.content || '' for the bodies /api/generate may
\* answer with: no html and no content, or a document
HtmlResults == {"", "<html>"}
MockHtml == "<html>mock"
\* htmlStorage[runId] || null
getHtml(html, runId) ==
  IF runId \in DOMAIN html /\ html[runId] # "" THEN Some(html[runId]) ELSE Undefined

\* generation.start up to its fetch: take a run id and post the request
GenerationStartCall(p) ==
  /\ issued.runs < MaxRunIds
  /\ Cardinality(inflight) < MaxInflight
  /\ issued' = [issued EXCEPT !.runs = @ + 1]
  /\ inflight' = inflight \cup {Call("generation.start", p, issued.runs + 1)}
  /\ UNCHANGED <<guidelines, issuedGuides, rules, allocs, waiverAcks, db,
                 response, reEvaluated, projects, storage, activationAcks,
                 uiVars>>

\* the run generation stores
NewRun(runId, p) == [run_id |-> runId, project_id |-> p, status |-> "completed"]

\* generation.start after its fetch: with an ok response store the html
\* under the run id and put the completed run at the head of the runs;
\* otherwise fall back to startMock, which awaits its delay
GenerationStart(call, ok, html) ==
  /\ call.op = "generation.start"
  /\ IF ok
     THEN /\ storage' = [storage EXCEPT
                           !.generated_html = Put(@, call.arg, html),
                           !.generation_runs =
                              <<NewRun(call.arg, call.project)>> \o @]
          /\ inflight' = inflight \ {call}
          /\ response' = [op |-> "generation.start", arg |-> call.project,
                          ok |-> TRUE, value |-> NewRun(call.arg, call.project)]
          /\ reEvaluated' = FALSE
     ELSE /\ inflight' = (inflight \ {call})
                           \cup {[call EXCEPT !.op = "generation.startMock"]}
          /\ UNCHANGED <<storage, response, reEvaluated>>
  /\ UNCHANGED <<guidelines, issuedGuides, rules, allocs, waiverAcks, db,
                 projects, issued, activationAcks, uiVars>>

\* generation.startMock after its delay: take a new run id, store the mock
\* html under it and put the completed run at the head of the runs
GenerationStartMock(call) ==
  /\ call.op = "generation.startMock"
  /\ issued.runs < MaxRunIds
  /\ LET runId == issued.runs + 1
     IN /\ issued' = [issued EXCEPT !.runs = runId]
        /\ storage' = [storage EXCEPT
                         !.generated_html = Put(@, runId, MockHtml),
                         !.generation_runs =
                            <<NewRun(runId, call.project)>> \o @]
        /\ response' = [op |-> "generation.start", arg |-> call.project,
                        ok |-> TRUE, value |-> NewRun(runId, call.project)]
  /\ inflight' = inflight \ {call}
  /\ reEvaluated' = FALSE
  /\ UNCHANGED <<guidelines, issuedGuides, rules, allocs, waiverAcks, db,
                 projects, activationAcks, uiVars>>

\* -------------------------------------------------- regulatory.activations
\* guideline and clinical phase of the activations asked for
ActivationInputs == {<<"guide-1", "phase_1">>, <<"guide-2", "phase_3">>}
\* activate stores nothing and answers {status: 'activated'}
ActivationsActivate(p, guidelineId, clinicalPhase) ==
  /\ activationAcks' = [activationAcks EXCEPT
                          ![p] = @ \cup {<<guidelineId, clinicalPhase>>}]
  /\ response' = [op |-> "activations.activate", arg |-> p, ok |-> TRUE,
                  value |-> [status |-> "activated"]]
  /\ reEvaluated' = FALSE
  /\ UNCHANGED <<guidelines, issuedGuides, rules, allocs, waiverAcks, db,
                 projects, storage, issued, inflight, uiVars>>

\* the documents of two projects: projects.create, documents.upload,
\* documents.reclassify, documents.delete
NextDocuments ==
  \/ \E p \in DataProjectIds : ProjectsCreate(p)
  \/ \E p \in DataProjectIds, c \in OptionalClassifications :
        Listed(p) /\ DocumentsUploadCall(p, c)
  \/ \E call \in inflight : DocumentsUpload(call)
  \/ \E p \in DataProjectIds, d \in DocIds, c \in ClassificationInputs :
        DocumentsReclassify(p, d, c)
  \/ \E p \in DataProjectIds, d \in DocIds : DocumentsDelete(p, d)

SpecDocuments == Init /\ [][NextDocuments]_vars

\* two projects filled by upload, extraction and generation whose requests
\* succeed, and deleted while such calls are in flight; every call is made
\* for a project of the list
NextDelete ==
  \/ \E p \in DataProjectIds : ProjectsCreate(p)
  \/ \E p \in DataProjectIds : Listed(p) /\ ProjectsDelete(p)
  \/ \E p \in DataProjectIds : Listed(p) /\ DocumentsUploadCall(p, Undefined)
  \/ \E call \in inflight : DocumentsUpload(call)
  \/ \E p \in DataProjectIds : Listed(p) /\ ExtractionStartCall(p)
  \/ \E call \in inflight : ExtractionStart(call, TRUE, 1)
  \/ \E p \in DataProjectIds : Listed(p) /\ GenerationStartCall(p)
  \/ \E call \in inflight : GenerationStart(call, TRUE, "<html>")

SpecDelete == Init /\ [][NextDelete]_vars

\* one project through upload, extraction, activation and generation, with
\* every answer the two requests can get
NextPipeline ==
  \/ \E p \in ProjectIds : ProjectsCreate(p)
  \/ \E p \in ProjectIds : Listed(p) /\ DocumentsUploadCall(p, Undefined)
  \/ \E call \in inflight : DocumentsUpload(call)
  \/ \E p \in ProjectIds : Listed(p) /\ ExtractionStartCall(p)
  \/ \E call \in inflight, ok \in BOOLEAN, n \in 0..1 :
        ExtractionStart(call, ok, n)
  \/ \E call \in inflight : ExtractionStartMock(call)
  \/ \E p \in ProjectIds : Listed(p) /\ GenerationStartCall(p)
  \/ \E call \in inflight, ok \in BOOLEAN, html \in HtmlResults :
        GenerationStart(call, ok, html)
  \/ \E call \in inflight : GenerationStartMock(call)
  \/ \E p \in ProjectIds, a \in ActivationInputs :
        Listed(p) /\ ActivationsActivate(p, a[1], a[2])

SpecPipeline == Init /\ [][NextPipeline]_vars

\* -------------------------------------------------------- ProjectProvider
\* calls of reload and selectById that may be awaiting at once
MaxProviderCalls == 1
\* whether an optional project is a project (not null, not undefined)
NonNull(x) == Len(x) > 0
\* data.items.find((p) => p.id === id)
Find(items, id) ==
  IF \E i \in 1..Len(items) : items[i].id = id
  THEN Some(items[CHOOSE i \in 1..Len(items) : items[i].id = id])
  ELSE Undefined

\* reload is called: it captures current and awaits projects.list()
ReloadCall ==
  /\ Cardinality(provider.calls) < MaxProviderCalls
  /\ provider' = [provider EXCEPT
                    !.calls = @ \cup {[op |-> "reload", current |-> provider.current,
                                      id |-> Undefined]}]
  /\ UNCHANGED <<guidelines, issuedGuides, rules, allocs, waiverAcks, db,
                 response, reEvaluated, projects, dataVars, uploader>>

\* the list and current that reload sets once projects.list() has
\* answered: the list is replaced, and current is replaced by the listed
\* project of the captured current's id when there is one
Reloaded(state, captured) ==
  LET updated == IF NonNull(captured) THEN Find(projects, captured[1].id)
                 ELSE Undefined
  IN [state EXCEPT !.list = projects,
                   !.current = IF NonNull(updated) THEN updated ELSE @]

\* a reload call gets the answer of projects.list()
Reload(call) ==
  /\ call.op = "reload"
  /\ provider' = [Reloaded(provider, call.current) EXCEPT !.calls = @ \ {call}]
  /\ UNCHANGED <<guidelines, issuedGuides, rules, allocs, waiverAcks, db,
                 response, reEvaluated, projects, dataVars, uploader>>

\* selectById is called: a project of the provider's list becomes current
\* at once; otherwise the call awaits projects.get(id)
SelectByIdCall(id) ==
  /\ LET existing == Find(provider.list, id)
     IN IF NonNull(existing)
        THEN provider' = [provider EXCEPT !.current = existing]
        ELSE /\ Cardinality(provider.calls) < MaxProviderCalls
             /\ provider' = [provider EXCEPT
                               !.calls = @ \cup {[op |-> "selectById.get",
                                                 current |-> Undefined,
                                                 id |-> Some(id)]}]
  /\ UNCHANGED <<guidelines, issuedGuides, rules, allocs, waiverAcks, db,
                 response, reEvaluated, projects, dataVars, uploader>>

\* projects.get(id) answers a selectById call: the project becomes current
\* and the call awaits projects.list(); 'Project not found' ends the call
SelectByIdGet(call) ==
  /\ call.op = "selectById.get"
  /\ LET project == Find(projects, call.id[1])
     IN IF NonNull(project)
        THEN provider' = [provider EXCEPT
                            !.current = project,
                            !.calls = (@ \ {call})
                               \cup {[call EXCEPT !.op = "selectById.list"]}]
        ELSE provider' = [provider EXCEPT !.calls = @ \ {call}]
  /\ UNCHANGED <<guidelines, issuedGuides, rules, allocs, waiverAcks, db,
                 response, reEvaluated, projects, dataVars, uploader>>

\* projects.list() answers a selectById call: the list is replaced
SelectByIdList(call) ==
  /\ call.op = "selectById.list"
  /\ provider' = [provider EXCEPT !.list = projects, !.calls = @ \ {call}]
  /\ UNCHANGED <<guidelines, issuedGuides, rules, allocs, waiverAcks, db,
                 response, reEvaluated, projects, dataVars, uploader>>

\* projects are created and deleted while the provider reloads and selects
NextProvider ==
  \/ \E p \in DataProjectIds : ProjectsCreate(p)
  \/ \E p \in DataProjectIds : Listed(p) /\ ProjectsDelete(p)
  \/ ReloadCall
  \/ \E call \in provider.calls : Reload(call)
  \/ \E id \in DataProjectIds : SelectByIdCall(id)
  \/ \E call \in provider.calls : SelectByIdGet(call)
  \/ \E call \in provider.calls : SelectByIdList(call)

SpecProvider == Init /\ [][NextProvider]_vars

\* ------------------------------------------------------------ upload queue
\* invocations of uploadFiles
MaxInvocations == 2
\* the names of the files of an invocation
FileLists == {<<"a.pdf", "b.pdf">>, <<"c.pdf">>}
\* q.map((item, idx) => idx === i ? { ...item, status } : item)
SetStatus(q, i, status) ==
  [idx \in 1..Len(q) |-> IF idx = i THEN [q[idx] EXCEPT !.status = status]
                          ELSE q[idx]]

\* uploadFiles is invoked for a project: the queue becomes the files, all
\* pending, the first is marked uploading and the invocation awaits the
\* text and the upload of that file
UploadFiles(pid, fileArr) ==
  /\ uploader.started < MaxInvocations
  /\ LET pending == [i \in 1..Len(fileArr) |->
                      [name |-> fileArr[i], status |-> "pending"]]
         n == uploader.started + 1
     IN uploader' = [uploadQueue |-> SetStatus(pending, 1, "uploading"),
                     started |-> n,
                     invocations |->
                       uploader.invocations
                         \cup {[n |-> n, pid |-> pid, fileArr |-> fileArr,
                                 i |-> 1, at |-> "upload"]}]
  /\ UNCHANGED <<guidelines, issuedGuides, rules, allocs, waiverAcks, db,
                 response, reEvaluated, projects, dataVars, provider>>

\* the invocation after the file's status is set: mark the next file
\* uploading and await it, or leave the loop and await load() and
\* reloadProjects()
Advance(state, inv, status) ==
  LET q == SetStatus(state.uploadQueue, inv.i, status)
      rest == state.invocations \ {inv}
  IN IF inv.i < Len(inv.fileArr)
     THEN [state EXCEPT
             !.uploadQueue = SetStatus(q, inv.i + 1, "uploading"),
             !.invocations = rest \cup {[inv EXCEPT !.i = @ + 1]}]
     ELSE [state EXCEPT
             !.uploadQueue = q,
             !.invocations = rest \cup {[inv EXCEPT !.at = "reload"]}]

\* the file of an invocation is uploaded: documents.upload stores it and
\* the queue entry at the file's index is marked done
UploadFileDone(inv) ==
  /\ inv.at = "upload"
  /\ UploadBody(inv.pid, Undefined)
  /\ uploader' = Advance(uploader, inv, "done")
  /\ UNCHANGED <<guidelines, issuedGuides, rules, allocs, waiverAcks, db,
                 inflight, activationAcks, provider>>

\* reading or uploading the file of an invocation throws: the queue entry
\* at the file's index is marked error
UploadFileError(inv) ==
  /\ inv.at = "upload"
  /\ uploader' = Advance(uploader, inv, "error")
  /\ UNCHANGED <<guidelines, issuedGuides, rules, allocs, waiverAcks, db,
                 response, reEvaluated, projects, dataVars, provider>>

\* after the loop: reloadProjects() refreshes the provider, then the timer
\* that clears the queue is set
UploadFilesReload(inv) ==
  /\ inv.at = "reload"
  /\ provider' = Reloaded(provider, provider.current)
  /\ uploader' = [uploader EXCEPT
                    !.invocations = (@ \ {inv}) \cup {[inv EXCEPT !.at = "timer"]}]
  /\ UNCHANGED <<guidelines, issuedGuides, rules, allocs, waiverAcks, db,
                 response, reEvaluated, projects, dataVars>>

\* setTimeout(() => setUploadQueue([]), 2000) fires
UploadFilesTimer(inv) ==
  /\ inv.at = "timer"
  /\ uploader' = [uploader EXCEPT !.uploadQueue = << >>,
                                  !.invocations = @ \ {inv}]
  /\ UNCHANGED <<guidelines, issuedGuides, rules, allocs, waiverAcks, db,
                 response, reEvaluated, projects, dataVars, provider>>

\* files are dropped on the document page of a project, also while an
\* earlier drop is being uploaded
NextQueue ==
  \/ \E p \in ProjectIds : ProjectsCreate(p)
  \/ \E p \in ProjectIds, fileArr \in FileLists :
        Listed(p) /\ UploadFiles(p, fileArr)
  \/ \E inv \in uploader.invocations : UploadFileDone(inv)
  \/ \E inv \in uploader.invocations : UploadFileError(inv)
  \/ \E inv \in uploader.invocations : UploadFilesReload(inv)
  \/ \E inv \in uploader.invocations : UploadFilesTimer(inv)

SpecQueue == Init /\ [][NextQueue]_vars

\* --------------------------------------------- projects and evaluation
\* Project creation next to the evaluation and waiver calls, over two
\* project ids; the waiver calls keep to the projects of ProjectIds.
EvaluatedProjectIds == {"proj-1", "proj-2"}
NextProjects ==
  \/ \E p \in EvaluatedProjectIds : ProjectsCreate(p)
  \/ \E p \in EvaluatedProjectIds, t \in Timestamps : Evaluate(p, t)
  \/ \E p \in ProjectIds, c \in WaiverCodes, j \in JustificationTexts :
        WaiverAdd(p, c, j)
  \/ \E p \in ProjectIds, c \in WaiverCodes : WaiverRemove(p, c)
  \/ \E p \in ProjectIds : WaiversList(p)

SpecProjects == Init /\ [][NextProjects]_vars

\* ------------------------------------------------- two-guideline library
\* The guideline calls over two guideline ids; status changes confirm or
\* reject rules without a justification.
NextLibrary ==
  \/ \E g \in LibraryGuidelineIds : Upload(g)
  \/ \E g \in LibraryGuidelineIds : DeleteGuideline(g)
  \/ \E g \in LibraryGuidelineIds : Allocate(g)
  \/ \E g \in LibraryGuidelineIds, ruleId \in RuleIds,
        status \in {"confirmed", "rejected"} :
        UpdateRuleStatus(g, ruleId, status, Undefined)

SpecLibrary == Init /\ [][NextLibrary]_vars

\* ------------------------------------------------------------ SQL schema
\* The tables projects, generation_runs and rule_evaluation_log as the
\* migrations declare them: rows are inserted under their foreign keys, and
\* deleting a parent row deletes the rows that reference it ON DELETE CASCADE.
DbProjectIds == {"proj-1", "proj-2"}
clientVars == <<guidelines, issuedGuides, rules, allocs, waiverAcks, response,
                projects, reEvaluated, dataVars, uiVars>>

\* INSERT INTO projects: the primary key must be new
DbInsertProject(p) ==
  /\ p \notin db.projects
  /\ db' = [db EXCEPT !.projects = @ \cup {p}]
  /\ UNCHANGED clientVars

\* INSERT INTO generation_runs: project_id REFERENCES projects(id)
DbInsertRun(p) ==
  /\ db.nextRun <= MaxRuns
  /\ p \in db.projects
  /\ db' = [db EXCEPT
              !.generation_runs = @ \cup {[id |-> db.nextRun, project_id |-> p]},
              !.nextRun = @ + 1]
  /\ UNCHANGED clientVars

\* INSERT INTO rule_evaluation_log: generation_run_id REFERENCES
\* generation_runs(id)
DbInsertLog(run, result) ==
  /\ db.nextLog <= MaxLogRows
  /\ \E r \in db.generation_runs : r.id = run
  /\ db' = [db EXCEPT
              !.rule_evaluation_log =
                 @ \cup {[id |-> db.nextLog, generation_run_id |-> run,
                          evaluation_result |-> result]},
              !.nextLog = @ + 1]
  /\ UNCHANGED clientVars

\* DELETE FROM generation_runs WHERE id = run: rule_evaluation_log rows of
\* the run go with it (generation_run_id ... ON DELETE CASCADE)
DbDeleteRun(run) ==
  /\ \E r \in db.generation_runs : r.id = run
  /\ db' = [db EXCEPT
              !.generation_runs = {r \in @ : r.id # run},
              !.rule_evaluation_log = {l \in @ : l.generation_run_id # run}]
  /\ UNCHANGED clientVars

\* DELETE FROM projects WHERE id = p: its generation_runs go with it
\* (project_id ... ON DELETE CASCADE), and with them their log rows
DbDeleteProject(p) ==
  /\ p \in db.projects
  /\ LET gone == {r.id : r \in {x \in db.generation_runs : x.project_id = p}}
     IN db' = [db EXCEPT
                 !.projects = @ \ {p},
                 !.generation_runs = {r \in @ : r.id \notin gone},
                 !.rule_evaluation_log =
                    {l \in @ : l.generation_run_id \notin gone}]
  /\ UNCHANGED clientVars

NextDb ==
  \/ \E p \in DbProjectIds : DbInsertProject(p)
  \/ \E p \in DbProjectIds : DbInsertRun(p)
  \/ \E run \in 1..MaxRuns, result \in {"PASS", "FAIL", "WAIVED"} :
        DbInsertLog(run, result)
  \/ \E run \in 1..MaxRuns : DbDeleteRun(run)
  \/ \E p \in DbProjectIds : DbDeleteProject(p)

SpecDb == Init /\ [][NextDb]_vars

TypeOK ==
  /\ issuedGuides \subseteq LibraryGuidelineIds
  /\ allocs \in 0..MaxAllocations
  /\ \A i \in 1..Len(projects) : projects[i].clinical_phase \in ClinicalPhase
  /\ reEvaluated \in BOOLEAN
  /\ \A g \in DOMAIN rules : \A i \in 1..Len(rules[g]) :
       /\ rules[g][i].status \in AllocationStatus
       /\ rules[g][i].validation_severity \in RuleSeverity
       /\ rules[g][i].override_justification \in OptionalJustifications
\* ======================================================================
\* Properties
\* ======================================================================
Entries(bucket) == {bucket[i] : i \in 1..Len(bucket)}
Codes(bucket) == {e.rule_id_code : e \in Entries(bucket)}
\* every rule code a report lists, in whatever bucket
ReportedCodes(r) ==
  Codes(r.blocking_failures) \cup Codes(r.warnings) \cup Codes(r.passes)
    \cup Codes(r.waivers)
\* an evaluation of project p has just returned
Evaluated(p) == response.op = "evaluate" /\ response.arg = p
StoredRules == UNION {{rules[g][i] : i \in 1..Len(rules[g])} : g \in DOMAIN rules}
StoredRulesNext == UNION {{rules'[g][i] : i \in 1..Len(rules'[g])} : g \in DOMAIN rules'}
\* the rule the evaluation finds failing
FailingRuleCode == "Q1A-005"

\* C1: in every report an evaluation returns, can_proceed is true exactly
\* when blocking_failures is empty, whatever the warnings bucket holds.
GateCorrectness ==
  response.op = "evaluate" =>
    (response.value.can_proceed <=> Len(response.value.blocking_failures) = 0)

\* C1 witness: a report with a WARN failure in warnings that may proceed.
GateCorrectness_Witness ==
  /\ response.op = "evaluate"
  /\ \E e \in Entries(response.value.warnings) :
       e.result = "FAIL" /\ e.severity = "WARN"
  /\ response.value.can_proceed

\* C3 (as claimed): once a waiver for the failing rule has been added, the
\* next evaluation lists the rule under waivers with result WAIVED and no
\* longer under blocking_failures or warnings.
WaiverMovesFailureToWaivers ==
  \A p \in ProjectIds :
    (Evaluated(p) /\ waiverAcks[p][FailingRuleCode] = "waived") =>
      /\ \E e \in Entries(response.value.waivers) :
           e.rule_id_code = FailingRuleCode /\ e.result = "WAIVED"
      /\ FailingRuleCode \notin Codes(response.value.blocking_failures)
      /\ FailingRuleCode \notin Codes(response.value.warnings)

\* C4: after a waiver for the failing rule was added and removed again, the
\* next evaluation reports the rule as FAIL under blocking_failures or
\* warnings and not under waivers.
RemovedWaiverReexposesFailure ==
  \A p \in ProjectIds :
    (Evaluated(p) /\ waiverAcks[p][FailingRuleCode] = "removed") =>
      /\ \E e \in Entries(response.value.blocking_failures)
                    \cup Entries(response.value.warnings) :
           e.rule_id_code = FailingRuleCode /\ e.result = "FAIL"
      /\ FailingRuleCode \notin Codes(response.value.waivers)

\* C4 witness: an evaluation returned after the waiver was added and removed.
RemovedWaiverReexposesFailure_Witness ==
  \E p \in ProjectIds :
    Evaluated(p) /\ waiverAcks[p][FailingRuleCode] = "removed"

\* C5 (as claimed): no stored rule whose status is pending_review or rejected
\* appears in any bucket of an evaluation report.
OnlyReviewedRulesEvaluated ==
  response.op = "evaluate" =>
    \A r \in StoredRules :
      r.status \in {"pending_review", "rejected"} =>
        r.rule_id_code \notin ReportedCodes(response.value)

\* C6: a rule that allocation creates is pending_review when it is created,
\* and a rule becomes confirmed only in a step of updateRuleStatus that asks
\* for confirmed.
ExtractionLandsPendingReview ==
  [][ /\ \A r \in StoredRulesNext :
           r.id \notin {o.id : o \in StoredRules} => r.status = "pending_review"
      /\ \A r \in StoredRulesNext :
           (r.status = "confirmed"
              /\ ~ \E o \in StoredRules : o.id = r.id /\ o.status = "confirmed")
           => \E g \in GuidelineIds, j \in OptionalJustifications :
                UpdateRuleStatus(g, r.id, "confirmed", j)
    ]_vars

\* C6 witness: an allocated rule that a status change has confirmed.
ExtractionLandsPendingReview_Witness ==
  allocs > 0 /\ \E r \in StoredRules : r.status = "confirmed"

\* C7 (as claimed): the only status changes ever applied to a stored rule are
\* pending_review -> confirmed, pending_review -> rejected and
\* confirmed -> overridden with a justification.
AllowedTransitions ==
  { <<"pending_review", "confirmed">>, <<"pending_review", "rejected">>,
    <<"confirmed", "overridden">> }
StrictStatusMachine ==
  [][ \A o \in StoredRules, r \in StoredRulesNext :
        (o.id = r.id /\ o.status # r.status) =>
          /\ <<o.status, r.status>> \in AllowedTransitions
          /\ r.status = "overridden" => Truthy(r.override_justification)
    ]_vars

\* C8 (as claimed): a stored rule carries a non-empty override_justification
\* if and only if its status is overridden.
JustificationIffOverridden ==
  \A r \in StoredRules :
    Truthy(r.override_justification) <=> r.status = "overridden"

\* C9 (as claimed): an override or a waiver add whose justification is empty
\* or only whitespace fails and changes nothing that is stored.
BlankTexts == {"", " "}
BlankJustificationRejected ==
  [][ /\ \A g \in GuidelineIds, t \in BlankTexts :
         \A id \in {rules[g][i].id : i \in 1..Len(rules[g])} :
           UpdateRuleStatus(g, id, "overridden", Some(t)) =>
             (rules' = rules /\ ~response'.ok)
      /\ \A p \in ProjectIds, c \in WaiverCodes, t \in BlankTexts :
           WaiverAdd(p, c, t) => ~response'.ok
    ]_vars

\* built-in phase rules of the design notes
PhaseOneRules == {"PHASE-I-COMMIT", "PHASE-I-STUDY", "PHASE-I-RESULTS"}
PhaseTwoThreeRules == {"PHASE-II-III-ACCEL", "PHASE-II-III-LT"}

\* C16: the report of an evaluation of a stored phase_1 project lists no
\* Phase II/III rule, that of a phase_2 or phase_3 project lists no Phase I
\* rule, and no report lists rules of both phase sets.
PhaseExclusivity ==
  response.op = "evaluate" =>
    LET codes == ReportedCodes(response.value) IN
      /\ \A i \in 1..Len(projects) :
           projects[i].id = response.arg =>
             /\ projects[i].clinical_phase = "phase_1"
                  => codes \cap PhaseTwoThreeRules = {}
             /\ projects[i].clinical_phase \in {"phase_2", "phase_3"}
                  => codes \cap PhaseOneRules = {}
      /\ codes \cap PhaseOneRules = {} \/ codes \cap PhaseTwoThreeRules = {}

\* C16 witness: an evaluation of a stored phase_1 project has returned.
PhaseExclusivity_Witness ==
  /\ response.op = "evaluate"
  /\ \E i \in 1..Len(projects) :
       projects[i].id = response.arg /\ projects[i].clinical_phase = "phase_1"

\* what a report says apart from its timestamp
Verdicts(r) ==
  <<r.can_proceed, r.blocking_failures, r.warnings, r.passes, r.waivers>>
\* rule codes in ascending order
CodeOrder == <<"Q1A-001", "Q1A-002", "Q1A-003", "Q1A-005">>
CodeRank(c) == CHOOSE i \in 1..Len(CodeOrder) : CodeOrder[i] = c
AscendingCodes(bucket) ==
  \A i, j \in 1..Len(bucket) :
    i < j => CodeRank(bucket[i].rule_id_code) < CodeRank(bucket[j].rule_id_code)

EvaluationLogAppendOnly ==
  [][ db.rule_evaluation_log \subseteq db'.rule_evaluation_log ]_vars

\* places of the stored rules: guideline id and position in its rule list
RulePlaces == {<<g, i>> : g \in DOMAIN rules, i \in 1..3}
StoredPlaces == {pl \in RulePlaces : pl[2] <= Len(rules[pl[1]])}

\* C19 (as claimed): no two stored rules, of one guideline or of two, carry
\* the same rule_id_code.
RuleIdCodeUnique ==
  \A a, b \in StoredPlaces :
    a # b => rules[a[1]][a[2]].rule_id_code # rules[b[1]][b[2]].rule_id_code

\* C20 (as claimed): allocation never removes what an earlier allocation
\* stored: every stored rule stays stored with its review status through a
\* later allocate, and allocating again for a listed guideline raises its
\* allocation_pack_count.
PackNeverDeleted ==
  [][ \A g \in DOMAIN rules :
        Allocate(g) =>
          /\ \A o \in StoredRules :
               \E r \in StoredRulesNext : r.id = o.id /\ r.status = o.status
          /\ \A i \in 1..Len(guidelines) :
               (guidelines[i].id = g /\ guidelines[i].allocation_pack_count >= 1)
                 => guidelines'[i].allocation_pack_count
                      > guidelines[i].allocation_pack_count
    ]_vars

\* C21 (as claimed): once a waiver for a rule has been added, once or several
\* times, and not removed, list(project) returns exactly one waiver for that
\* rule.
OneWaiverPerRule ==
  \A p \in ProjectIds, c \in WaiverCodes :
    (response.op = "waivers.list" /\ response.arg = p
       /\ waiverAcks[p][c] = "waived")
      => Cardinality({i \in 1..Len(response.value.items) :
                        response.value.items[i].rule_id_code = c}) = 1

\* -------------------------------------------------------- stored data
ListedIds == {projects[i].id : i \in 1..Len(projects)}
StoredDocs(p) == SeqToSet(Get(storage.documents, p))
StoredRuns == SeqToSet(storage.generation_runs)
RunsOf(runs, p) == LET mine(r) == r.project_id = p IN Filter(runs, mine)
ExtractedOf(p) ==
  SeqToSet(Get(storage.studies, p)) \cup SeqToSet(Get(storage.lots, p))
    \cup SeqToSet(Get(storage.conditions, p))
    \cup SeqToSet(Get(storage.attributes, p))

\* C22 (as claimed): while a project has two active activations with
\* different clinical phases, no generation run is added for it.
PhaseConflict(p) ==
  \E a \in activationAcks[p], b \in activationAcks[p] : a[2] # b[2]
NoGenerationUnderPhaseConflict ==
  [][ \A p \in ProjectIds :
        PhaseConflict(p) =>
          Len(RunsOf(storage'.generation_runs, p))
            <= Len(RunsOf(storage.generation_runs, p))
    ]_vars

\* C23 (as claimed): every study, lot, condition and attribute that
\* extraction stored is pending review.
ExtractedRecordsPendingReview ==
  \A p \in DataProjectIds :
    \A x \in ExtractedOf(p) : x.extraction_status = "pending_review"

\* C24 (as claimed): a stored document is 'authoritative' exactly when its
\* classification is stability_plan or stability_report.
AuthorityFollowsClassification ==
  \A p \in DataProjectIds :
    \A d \in StoredDocs(p) :
      d.authority = "authoritative"
        <=> d.classification \in {"stability_plan", "stability_report"}

HtmlOf(html, runs, p) ==
  LET ids == {r.run_id : r \in SeqToSet(RunsOf(runs, p))}
  IN [r \in DOMAIN html \cap ids |-> html[r]]
TextsOf(texts, docs, p) == texts \cap {d.id : d \in SeqToSet(Get(docs, p))}
DeleteRemovesProjectData ==
  [][ \A id \in DataProjectIds :
        (Listed(id) /\ ~ListedNext(id)) =>
          /\ id \notin DOMAIN storage'.documents
          /\ id \notin DOMAIN storage'.studies
          /\ id \notin DOMAIN storage'.lots
          /\ id \notin DOMAIN storage'.conditions
          /\ id \notin DOMAIN storage'.attributes
          /\ RunsOf(storage'.generation_runs, id) = << >>
          /\ TextsOf(storage'.document_texts, storage.documents, id) = {}
          /\ DOMAIN HtmlOf(storage'.generated_html, storage.generation_runs, id)
               = {}
          /\ LET others(x) == x.id # id IN projects' = Filter(projects, others)
          /\ \A q \in DataProjectIds \ {id} :
               /\ Get(storage'.documents, q) = Get(storage.documents, q)
               /\ Get(storage'.studies, q) = Get(storage.studies, q)
               /\ Get(storage'.lots, q) = Get(storage.lots, q)
               /\ Get(storage'.conditions, q) = Get(storage.conditions, q)
               /\ Get(storage'.attributes, q) = Get(storage.attributes, q)
               /\ RunsOf(storage'.generation_runs, q)
                    = RunsOf(storage.generation_runs, q)
               /\ TextsOf(storage'.document_texts, storage'.documents, q)
                    = TextsOf(storage.document_texts, storage.documents, q)
               /\ HtmlOf(storage'.generated_html, storage'.generation_runs, q)
                    = HtmlOf(storage.generated_html, storage.generation_runs, q)
    ]_vars
\* a project that had a document, extracted records and a run has been
\* deleted while the other project keeps its document, records and run
DeleteRemovesProjectData_Witness ==
  /\ inflight = {}
  /\ response.op = "projects.delete"
  /\ ~Listed(response.arg)
  /\ issued.docs = 2 /\ issued.runs = 2
  /\ Cardinality(storage.document_texts) = 1
  /\ Len(storage.generation_runs) = 1
  /\ DOMAIN storage.generated_html = {storage.generation_runs[1].run_id}
  /\ \E q \in ListedIds \ {response.arg} :
       /\ Len(Get(storage.documents, q)) = 1
       /\ Len(Get(storage.studies, q)) = 1
       /\ storage.generation_runs[1].project_id = q

\* C27 (as claimed): under every interleaving of projects.delete with
\* documents.upload, extraction.start and generation.start calls in flight,
\* once no call is in flight the stored data belong to projects of the list.
NoOrphans ==
  /\ DOMAIN storage.documents \subseteq ListedIds
  /\ DOMAIN storage.studies \subseteq ListedIds
  /\ DOMAIN storage.lots \subseteq ListedIds
  /\ DOMAIN storage.conditions \subseteq ListedIds
  /\ DOMAIN storage.attributes \subseteq ListedIds
  /\ \A r \in StoredRuns : r.project_id \in ListedIds
  /\ DOMAIN storage.generated_html \subseteq {r.run_id : r \in StoredRuns}
  /\ storage.document_texts
       \subseteq UNION {{d.id : d \in StoredDocs(p)} : p \in ListedIds}
RacingCallsLeaveNoOrphans == (inflight = {}) => NoOrphans

\* C28 (as claimed): getHtml returns non-null HTML for the run of every
\* generation.start call that returned.
EveryRunHasHtml ==
  \A r \in StoredRuns :
    getHtml(storage.generated_html, r.run_id) # Undefined

\* C29 (as claimed): when no reload or selectById call of the provider is
\* awaiting, current is null or a project of the provider's list.
CurrentInList ==
  (provider.calls = {}) =>
    \/ provider.current = Undefined
    \/ \E i \in 1..Len(provider.list) :
         provider.list[i].id = provider.current[1].id

\* C30 (as claimed): while the queue holds the same files, each entry keeps
\* its status or moves pending -> uploading or uploading -> done / error.
QueueMoves == {<<"pending", "uploading">>, <<"uploading", "done">>,
               <<"uploading", "error">>}
QueueStatusMachine ==
  [][ (uploader'.started = uploader.started
         /\ Len(uploader'.uploadQueue) = Len(uploader.uploadQueue))
        => \A idx \in 1..Len(uploader.uploadQueue) :
             \/ uploader'.uploadQueue[idx].status
                  = uploader.uploadQueue[idx].status
             \/ <<uploader.uploadQueue[idx].status,
                   uploader'.uploadQueue[idx].status>> \in QueueMoves
    ]_vars
====
